---- MODULE Spec2Model ----
(***************************************************************************)
(* Email dashboard: the client email store (email-store.ts), the list     *)
(* view's page-fetch and auto-classification pipeline (email-list.tsx),    *)
(* the mail provider's paginated listing and the classification route.    *)
(* One event of the UI thread (a handler run to its first await, or the   *)
(* continuation after an await) is one action.                             *)
(***************************************************************************)
EXTENDS Integers, Sequences, FiniteSets, Bags, TLC

\* ------------------------------------------------------------------ bounds
\* Number of messages in the mailbox.
MaxId == 3
\* Longest base list explored (a page-append that would exceed it stays
\* outstanding or fails).
MaxList == MaxId
\* Most page fetches outstanding at once.
MaxFetches == 2
\* Most entries the AI model returns beyond the emails it was given.
MaxExtra == 1

Ids == 1..MaxId

\* ------------------------------------------------- sizes set by the source
\* The source's sizes are 50 (provider page), 50 (client batch) and 30 (server
\* batch).  The model keeps their order (page = client batch > server batch)
\* and scales them to the mailbox: the mailbox is one message longer than a
\* page, so that a second page and a second batch exist.
PageSize == MaxId - 1
BatchCeiling == PageSize
ServerBatchLimit == BatchCeiling - 1

Min(a, b) == IF a < b THEN a ELSE b

Take(s, n) == SubSeq(s, 1, Min(n, Len(s)))

Range(s) == {s[i] : i \in 1..Len(s)}

\* ------------------------------------------------------------ null values
Null == "null"
NoId == 0
NullToken == [q |-> <<>>, off |-> 0]
NoRequest == [type |-> Null, emailIds |-> <<>>]
\* A JavaScript value that may be undefined.
JsUndefined == [defined |-> FALSE]
JsValue(v) == [defined |-> TRUE, value |-> v]

\* ------------------------------------------------------------ filter model
defaultFilters ==
  [search |-> "", unreadOnly |-> FALSE, hasAttachment |-> FALSE,
   dateRange |-> "all", categories |-> {}, priorities |-> {},
   tags |-> {}, excludeRedundant |-> FALSE]

\* The after:<date> token of a date range (the date itself is the wall clock's).
AfterToken(range) ==
  CASE range = "today" -> "after:today"
    [] range = "week" -> "after:week"
    [] OTHER -> "after:month"

\* buildQuery: one token per active remote constraint, in this order.
buildQuery(f) ==
  (IF f.search # "" THEN <<f.search>> ELSE <<>>)
  \o (IF f.unreadOnly THEN <<"is:unread">> ELSE <<>>)
  \o (IF f.hasAttachment THEN <<"has:attachment">> ELSE <<>>)
  \o (IF f.dateRange # "all" THEN <<AfterToken(f.dateRange)>> ELSE <<>>)

\* The (key, value) pairs the filter bar passes to updateFilter.
FilterInputs ==
  {<<"unreadOnly", TRUE>>, <<"unreadOnly", FALSE>>,
   <<"categories", {"finance"}>>, <<"categories", {}>>}

\* ------------------------------------------------------------ mail provider
\* The mailbox: message 1 is read, the others unread.
Mail == [i \in Ids |-> [id |-> i, isUnread |-> i > 1]]

Matches(m, q) == ("is:unread" \in Range(q)) => m.isUnread

Matching(q) == SelectSeq(Mail, LAMBDA m : Matches(m, q))

\* listMessages: the page at the cursor's offset of the messages matching q,
\* and the cursor of the next page (NullToken when there is none).
ListMessages(q, token) ==
  LET all == Matching(q)
      from == token.off
      upto == Min(from + PageSize, Len(all))
  IN  [messages |-> SubSeq(all, from + 1, upto),
       nextPageToken |-> IF upto < Len(all) THEN [q |-> q, off |-> upto]
                         ELSE NullToken]

\* The store's fields, the list view's refs, timer and requests in flight, the
\* server's classification table, and lastFailed: the batch of the
\* classification request that failed in the last step (<<>> after any other
\* step).
\* The UI store's detailPanelOpen and shortcutsModalOpen; displayEmails, the
\* list view's memoized list; listenerLast, whether the list view's keydown
\* listener was added to window after the detail panel's; the detail panel's
\* body fetches in flight and the id of the body it holds; aiReq, the scope of
\* the AI panel's last request; retry, the state of the server's withRetry
\* call (position, loop counter, calls of the wrapped operation, the errors
\* it threw, and what withRetry returned or threw); detailError, the detail panel's error; aiStore, the AI store's analysis fields and
\* the quick action awaiting its response.
VARIABLES
  emails, selectedEmailId, selectedEmailIds, classifications, isClassifying,
  pageToken, hasMore, isLoading, isLoadingMore, error, filters,
  fetches, classifiedIdsRef, classifyReqs, timerArmed, db, lastFailed,
  detailPanelOpen, shortcutsModalOpen, displayEmails, listenerLast,
  detailReqs, emailData, aiReq, aiStore, detailError, retry

vars == <<emails, selectedEmailId, selectedEmailIds, classifications,
          isClassifying, pageToken, hasMore, isLoading, isLoadingMore, error,
          filters, fetches, classifiedIdsRef, classifyReqs, timerArmed, db,
          lastFailed, detailPanelOpen, shortcutsModalOpen, displayEmails,
          listenerLast, detailReqs, emailData, aiReq, aiStore, detailError,
          retry>>

\* The variables the list view's fetch and classification code never writes.
uiVars ==
  <<detailPanelOpen, shortcutsModalOpen, detailReqs, emailData, aiReq, aiStore,
    detailError, retry>>

\* No withRetry call made.
retryIdle ==
  [pc |-> "idle", attempt |-> 0, calls |-> 0, errors |-> <<>>,
   result |-> 0, thrown |-> Null]

\* The AI store as constructed.
aiStoreInit ==
  [summaries |-> {}, categories |-> {}, tasks |-> <<>>,
   suggestedFilters |-> <<>>, insights |-> <<>>, isAnalyzing |-> FALSE,
   analyzeError |-> Null, action |-> Null]

IdsOf(list) == {list[i].id : i \in 1..Len(list)}

\* --------------------------------------------------------------- email store
\* setEmails keeping the active id and the selection.
setEmailsKeepingSelection(list) ==
  /\ emails' = list
  /\ UNCHANGED <<selectedEmailId, selectedEmailIds>>

\* setEmails, then setPageToken (fetchEmails calls them back to back).
setEmails(list) ==
  /\ emails' = list
  /\ selectedEmailId' = NoId
  /\ selectedEmailIds' = {}

\* setPageToken without the has-more flag.
setPageTokenOnly(token) ==
  /\ pageToken' = token
  /\ UNCHANGED hasMore

setPageToken(token) ==
  /\ pageToken' = token
  /\ hasMore' = (token # NullToken)

\* appendEmails putting the new page in front.
appendEmailsInFront(list, token) ==
  /\ emails' = list \o emails
  /\ pageToken' = token
  /\ hasMore' = (token # NullToken)

appendEmails(list, token) ==
  /\ emails' = emails \o list
  /\ pageToken' = token
  /\ hasMore' = (token # NullToken)

\* setClassifications dropping the stored entries the batch writes over.
MergedClassificationsDropping(old, new) ==
  [i \in (DOMAIN old \cup DOMAIN new) \ (DOMAIN old \cap DOMAIN new) |->
     IF i \in DOMAIN new THEN new[i] ELSE old[i]]

\* setClassifications: every incoming entry is written over the stored one.
MergedClassifications(old, new) ==
  [i \in DOMAIN old \cup DOMAIN new |->
     IF i \in DOMAIN new THEN new[i] ELSE old[i]]

\* No code path calls setEmailTags: the tag map stays as constructed.
emailTags == <<>>

TagsOf(id) == IF id \in DOMAIN emailTags THEN emailTags[id] ELSE {}

\* getFilteredEmails without the "no classification" test of the category
\* and priority filters.
getFilteredEmailsFailOpen(list, f, cls) ==
  SelectSeq(list, LAMBDA e :
    /\ (f.categories # {} /\ e.id \in DOMAIN cls)
         => cls[e.id].category \in f.categories
    /\ (f.priorities # {} /\ e.id \in DOMAIN cls)
         => cls[e.id].priority \in f.priorities
    /\ f.excludeRedundant
         => ~(e.id \in DOMAIN cls /\ cls[e.id].isRedundant)
    /\ f.tags # {} => (f.tags \cap TagsOf(e.id) # {}))

\* getFilteredEmails, on the store's list, filters and classification map.
getFilteredEmails(list, f, cls) ==
  SelectSeq(list, LAMBDA e :
    /\ f.categories # {}
         => (e.id \in DOMAIN cls /\ cls[e.id].category \in f.categories)
    /\ f.priorities # {}
         => (e.id \in DOMAIN cls /\ cls[e.id].priority \in f.priorities)
    /\ f.excludeRedundant
         => ~(e.id \in DOMAIN cls /\ cls[e.id].isRedundant)
    /\ f.tags # {} => (f.tags \cap TagsOf(e.id) # {}))

\* ------------------------------------------------------- list view rendering
hasClassificationFilters(f) ==
  f.categories # {} \/ f.priorities # {} \/ f.excludeRedundant

\* The value the displayEmails memo computes.
DisplayValue(list, f, cls) ==
  IF hasClassificationFilters(f) THEN getFilteredEmails(list, f, cls)
  ELSE list

\* The render after a store update.  The displayEmails memo is recomputed
\* when emails is a new array (newEmails, or a different value) or one of the
\* three filter fields it depends on changed.  The keydown effect of the
\* list view depends on displayEmails and fetchEmails (which depends on
\* filters and pageToken): when it runs again its listener goes to the end
\* of window's listeners; the detail panel's effect depends on
\* detailPanelOpen, and a child's effects run before its parent's.
Render(newEmails, newFilters) ==
  LET memoDeps ==
        \/ newEmails
        \/ emails' # emails
        \/ filters'.categories # filters.categories
        \/ filters'.priorities # filters.priorities
        \/ filters'.excludeRedundant # filters.excludeRedundant
  IN  /\ displayEmails' =
           IF memoDeps THEN DisplayValue(emails', filters', classifications')
           ELSE displayEmails
      /\ listenerLast' =
           IF memoDeps \/ newFilters \/ pageToken' # pageToken THEN TRUE
           ELSE IF detailPanelOpen' # detailPanelOpen THEN FALSE
           ELSE listenerLast

\* The detail panel's effect on [selectedEmailId, detailPanelOpen]: with no
\* active message or the panel closed it drops the body it holds, otherwise
\* it requests the body of the active message.
DetailEffect ==
  IF selectedEmailId' = selectedEmailId /\ detailPanelOpen' = detailPanelOpen
    THEN UNCHANGED <<detailReqs, emailData, detailError>>
  ELSE IF selectedEmailId' = NoId \/ ~detailPanelOpen'
    THEN /\ emailData' = NoId
         /\ UNCHANGED <<detailReqs, detailError>>
  ELSE /\ detailReqs' = detailReqs \cup {selectedEmailId'}
       /\ detailError' = Null
       /\ UNCHANGED emailData

\* ---------------------------------------------------------------- fetchEmails
\* fetchEmails up to its await: the loading flag and the request.
FetchRequest(append, f, token) ==
  [append |-> append, q |-> buildQuery(f),
   pageToken |-> IF append /\ token # NullToken THEN token ELSE NullToken]

StartFetch(append, f) ==
  /\ BagCardinality(fetches) < MaxFetches
  /\ fetches' = fetches (+) SetToBag({FetchRequest(append, f, pageToken)})
  /\ IF append
       THEN /\ isLoadingMore' = TRUE
            /\ UNCHANGED <<isLoading, error>>
       ELSE /\ isLoading' = TRUE
            /\ error' = Null
            /\ UNCHANGED isLoadingMore

\* The auto-classify effect depends on emails, classifications, isClassifying
\* and isLoading: a change of any of them clears the timer and sets a new one.
Rearm ==
  timerArmed' =
    IF \/ emails' # emails
       \/ classifications' # classifications
       \/ isClassifying' # isClassifying
       \/ isLoading' # isLoading
      THEN TRUE ELSE timerArmed

Remove(s, i) == SubSeq(s, 1, i - 1) \o SubSeq(s, i + 1, Len(s))

\* The store's initial state once EmailList has mounted: the mount run of the
\* [filters] effect has called fetchEmails() (first-page request out, isLoading
\* stays true, error null) and the auto-classify effect has set its timer.
Init ==
  /\ emails = <<>>
  /\ selectedEmailId = NoId
  /\ selectedEmailIds = {}
  /\ classifications = <<>>
  /\ isClassifying = FALSE
  /\ pageToken = NullToken
  /\ hasMore = FALSE
  /\ isLoading = TRUE
  /\ isLoadingMore = FALSE
  /\ error = Null
  /\ filters = defaultFilters
  /\ fetches = SetToBag({FetchRequest(FALSE, defaultFilters, NullToken)})
  /\ classifiedIdsRef = {}
  /\ classifyReqs = <<>>
  /\ timerArmed = TRUE
  /\ db = <<>>
  /\ lastFailed = <<>>
  /\ detailPanelOpen = FALSE
  /\ shortcutsModalOpen = FALSE
  /\ displayEmails = <<>>
  /\ listenerLast = TRUE
  /\ detailReqs = {}
  /\ emailData = NoId
  /\ detailError = Null
  /\ retry = retryIdle
  /\ aiReq = NoRequest
  /\ aiStore = aiStoreInit

\* updateFilter(key, value), then the [filters] effect: fetchEmails().
UpdateFilter ==
  \E kv \in FilterInputs :
    /\ filters' = [filters EXCEPT ![kv[1]] = kv[2]]
    /\ StartFetch(FALSE, filters')
    /\ UNCHANGED <<emails, selectedEmailId, selectedEmailIds, classifications,
                   isClassifying, pageToken, hasMore, classifiedIdsRef,
                   classifyReqs, db>>
    /\ Rearm
    /\ lastFailed' = <<>>
    /\ UNCHANGED uiVars
    /\ Render(FALSE, TRUE)

HasActiveFilters(f) ==
  \/ f.unreadOnly
  \/ f.hasAttachment
  \/ f.dateRange # "all"
  \/ f.categories # {}
  \/ f.priorities # {}
  \/ f.excludeRedundant

\* "Clear filters" (shown while a filter is active): resetFilters, then the
\* [filters] effect: fetchEmails().
ResetFilters ==
  /\ HasActiveFilters(filters)
  /\ filters' = defaultFilters
  /\ pageToken' = NullToken
  /\ BagCardinality(fetches) < MaxFetches
  /\ fetches' =
       fetches (+) SetToBag({FetchRequest(FALSE, defaultFilters, NullToken)})
  /\ isLoading' = TRUE
  /\ error' = Null
  /\ UNCHANGED <<emails, selectedEmailId, selectedEmailIds, classifications,
                 isClassifying, hasMore, isLoadingMore, classifiedIdsRef,
                 classifyReqs, db>>
  /\ Rearm
  /\ lastFailed' = <<>>
  /\ UNCHANGED uiVars
  /\ Render(FALSE, TRUE)

\* The "r" key and the refresh button: fetchEmails().
Refresh ==
  /\ StartFetch(FALSE, filters)
  /\ UNCHANGED <<emails, selectedEmailId, selectedEmailIds, classifications,
                 isClassifying, pageToken, hasMore, filters, classifiedIdsRef,
                 classifyReqs, db>>
  /\ Rearm
  /\ lastFailed' = <<>>
  /\ UNCHANGED uiVars
  /\ Render(FALSE, FALSE)

\* The sentinel is rendered below a non-empty list that is neither loading
\* nor in error, while hasMore.
SentinelRendered ==
  /\ ~isLoading
  /\ error = Null
  /\ Len(emails) > 0
  /\ hasMore

LoadMoreGuard == hasMore /\ ~isLoadingMore /\ ~isLoading

\* IntersectionObserver callback: fetchEmails(true).
LoadMore ==
  /\ SentinelRendered
  /\ LoadMoreGuard
  /\ StartFetch(TRUE, filters)
  /\ UNCHANGED <<emails, selectedEmailId, selectedEmailIds, classifications,
                 isClassifying, pageToken, hasMore, filters, classifiedIdsRef,
                 classifyReqs, db>>
  /\ Rearm
  /\ lastFailed' = <<>>
  /\ UNCHANGED uiVars
  /\ Render(FALSE, FALSE)

\* fetchEmails after its await, response ok.
FetchSuccess ==
  \E req \in BagToSet(fetches) :
    LET data == ListMessages(req.q, req.pageToken)
    IN  /\ fetches' = fetches (-) SetToBag({req})
        /\ IF req.append
             THEN /\ Len(emails) + Len(data.messages) <= MaxList
                  /\ appendEmails(data.messages, data.nextPageToken)
                  /\ UNCHANGED <<selectedEmailId, selectedEmailIds>>
             ELSE /\ setEmails(data.messages)
                  /\ setPageToken(data.nextPageToken)
        /\ isLoading' = FALSE
        /\ isLoadingMore' = FALSE
        /\ UNCHANGED <<classifications, isClassifying, error, filters,
                       classifiedIdsRef, classifyReqs, db>>
        /\ timerArmed' = TRUE
        /\ lastFailed' = <<>>
        /\ UNCHANGED <<detailPanelOpen, shortcutsModalOpen, aiReq, aiStore,
                       retry>>
        /\ DetailEffect
        /\ Render(TRUE, FALSE)

\* FetchFail sending the failed request again.
FetchFailRetrying ==
  \E req \in BagToSet(fetches) :
    /\ fetches' = fetches
    /\ error' = "Failed to fetch emails"
    /\ isLoading' = FALSE
    /\ isLoadingMore' = FALSE
    /\ UNCHANGED <<emails, selectedEmailId, selectedEmailIds, classifications,
                   isClassifying, pageToken, hasMore, filters,
                   classifiedIdsRef, classifyReqs, db>>
    /\ Rearm
    /\ lastFailed' = <<>>
    /\ UNCHANGED uiVars
    /\ Render(FALSE, FALSE)

\* fetchEmails after its await, network error or non-2xx.
FetchFail ==
  \E req \in BagToSet(fetches) :
    /\ fetches' = fetches (-) SetToBag({req})
    /\ error' = "Failed to fetch emails"
    /\ isLoading' = FALSE
    /\ isLoadingMore' = FALSE
    /\ UNCHANGED <<emails, selectedEmailId, selectedEmailIds, classifications,
                   isClassifying, pageToken, hasMore, filters,
                   classifiedIdsRef, classifyReqs, db>>
    /\ Rearm
    /\ lastFailed' = <<>>
    /\ UNCHANGED uiVars
    /\ Render(FALSE, FALSE)

\* ------------------------------------------------- classification service
\* The judgments the AI model returns for one email.
AICategories == {"finance"}
AIPriorities == {"medium"}
AIRedundant == {FALSE}

AIJudgments ==
  [category : AICategories, priority : AIPriorities, isRedundant : AIRedundant]

\* classifyEmailsBatch: the parsed "classifications" array of the AI response,
\* any length up to MaxExtra entries more than asked for; entry i takes the id
\* of the i-th submitted email when there is one, otherwise the id the AI
\* model wrote.  The empty sequence is also the result of a payload that does
\* not parse.
classifyEmailsBatch(newEmails) ==
  LET n == Len(newEmails)
  IN  UNION {
        { [i \in 1..k |->
             [id |-> IF i <= n THEN newEmails[i] ELSE ownId[i],
              category |-> js[i].category, priority |-> js[i].priority,
              isRedundant |-> js[i].isRedundant]] :
            js \in [1..k -> AIJudgments], ownId \in [1..k -> Ids] }
        : k \in 0..(n + MaxExtra) }

\* prisma upsert of the POST handler: create sets isManual false, update
\* leaves isManual as stored.
UpsertAuto(d, r) ==
  LET rec == [emailId |-> r.id, category |-> r.category,
              priority |-> r.priority, isRedundant |-> r.isRedundant,
              isManual |-> IF r.id \in DOMAIN d THEN d[r.id].isManual
                           ELSE FALSE]
  IN  [i \in DOMAIN d \cup {r.id} |-> IF i = r.id THEN rec ELSE d[i]]

RECURSIVE UpsertAll(_, _)
UpsertAll(d, results) ==
  IF results = <<>> THEN d
  ELSE UpsertAll(UpsertAuto(d, Head(results)), Tail(results))

\* prisma upsert of the PUT handler.
UpsertManual(d, inp) ==
  LET rec == IF inp.emailId \in DOMAIN d
               THEN [d[inp.emailId] EXCEPT
                       !.category = IF inp.category # Null THEN inp.category
                                    ELSE @,
                       !.priority = IF inp.priority # Null THEN inp.priority
                                    ELSE @,
                       !.isManual = TRUE]
               ELSE [emailId |-> inp.emailId,
                     category |-> IF inp.category # Null THEN inp.category
                                  ELSE "other",
                     priority |-> IF inp.priority # Null THEN inp.priority
                                  ELSE "medium",
                     isRedundant |-> FALSE, isManual |-> TRUE]
  IN  [i \in DOMAIN d \cup {inp.emailId} |->
         IF i = inp.emailId THEN rec ELSE d[i]]

\* The bodies of the manual PUT requests explored.
PutInputs == {[emailId |-> 1, category |-> "work", priority |-> Null]}

\* PUT /api/classifications.
ManualPut ==
  \E inp \in PutInputs :
    /\ db' = UpsertManual(db, inp)
    /\ db' # db
    /\ UNCHANGED <<emails, selectedEmailId, selectedEmailIds, classifications,
                   isClassifying, pageToken, hasMore, isLoading, isLoadingMore,
                   error, filters, fetches, classifiedIdsRef, classifyReqs,
                   timerArmed>>
    /\ lastFailed' = <<>>
    /\ UNCHANGED uiVars
    /\ Render(FALSE, FALSE)

\* ----------------------------------------------------------- classifyEmails
\* Unclassified without the in-flight set.
UnclassifiedIgnoringInFlight ==
  SelectSeq(emails, LAMBDA e : e.id \notin DOMAIN classifications)

\* Emails neither in the store's classification map nor sent already.
Unclassified ==
  SelectSeq(emails, LAMBDA e : /\ e.id \notin DOMAIN classifications
                               /\ e.id \notin classifiedIdsRef)

\* Batch without the ceiling.
BatchUncapped(unclassified) == unclassified

Batch(unclassified) == Take(unclassified, BatchCeiling)

\* Whether classifyEmails returns before looking for unclassified emails.
ClassifyBusy == Len(emails) = 0 \/ isClassifying \/ isLoading

\* The debounce timer fires: classifyEmails up to its await.
ClassifyTimer ==
  /\ timerArmed
  /\ IF ClassifyBusy \/ Unclassified = <<>>
       THEN /\ timerArmed' = FALSE
            /\ UNCHANGED <<isClassifying, classifiedIdsRef, classifyReqs>>
       ELSE LET batch == Batch(Unclassified)
                ids == [i \in 1..Len(batch) |-> batch[i].id]
            IN  /\ classifiedIdsRef' = classifiedIdsRef \cup Range(ids)
                /\ isClassifying' = TRUE
                /\ classifyReqs' =
                     Append(classifyReqs,
                            [batch |-> ids, phase |-> "sent",
                             existing |-> <<>>, newEmails |-> <<>>])
                /\ timerArmed' = TRUE
  /\ UNCHANGED <<emails, selectedEmailId, selectedEmailIds, classifications,
                 pageToken, hasMore, isLoading, isLoadingMore, error, filters,
                 fetches, db>>
  /\ lastFailed' = <<>>
  /\ UNCHANGED uiVars
  /\ Render(FALSE, FALSE)

\* POST /api/classifications up to the AI call: the batch is cut to the
\* server limit and the stored classifications of its ids are read.
ServerRead ==
  \E i \in 1..Len(classifyReqs) :
    LET req == classifyReqs[i]
        emailsToClassify == Take(req.batch, ServerBatchLimit)
        existing == [id \in Range(emailsToClassify) \cap DOMAIN db |-> db[id]]
        newEmails == SelectSeq(emailsToClassify,
                               LAMBDA id : id \notin DOMAIN existing)
    IN  /\ req.phase = "sent"
        /\ classifyReqs' =
             [classifyReqs EXCEPT ![i] = [batch |-> req.batch,
                                          phase |-> "read",
                                          existing |-> existing,
                                          newEmails |-> newEmails]]
        /\ UNCHANGED <<emails, selectedEmailId, selectedEmailIds,
                       classifications, isClassifying, pageToken, hasMore,
                       isLoading, isLoadingMore, error, filters, fetches,
                       classifiedIdsRef, timerArmed, db>>
        /\ lastFailed' = <<>>
        /\ UNCHANGED uiVars
        /\ Render(FALSE, FALSE)

\* The rest of POST for request i when the AI call returns results (the
\* upserts and the response map: stored rows, overlaid by the saved ones), and
\* classifyEmails after its await with response.ok: setClassifications, then
\* setClassifying(false).
ClassifyOkWith(i, results) ==
  LET req == classifyReqs[i]
      saved == {results[k].id : k \in 1..Len(results)}
      response == [id \in DOMAIN req.existing \cup saved |->
                     IF id \in saved THEN db'[id] ELSE req.existing[id]]
  IN  /\ db' = UpsertAll(db, results)
      /\ classifications' = MergedClassifications(classifications, response)
      /\ classifyReqs' = Remove(classifyReqs, i)
      /\ isClassifying' = FALSE
      /\ UNCHANGED <<emails, selectedEmailId, selectedEmailIds, pageToken,
                     hasMore, isLoading, isLoadingMore, error, filters,
                     fetches, classifiedIdsRef>>
      /\ timerArmed' = TRUE
      /\ lastFailed' = <<>>
      /\ UNCHANGED uiVars
      /\ Render(FALSE, FALSE)

\* What the AI step of POST can yield for request req: nothing to ask when
\* every email of the cut batch has a stored row.
ResultsFor(req) ==
  IF req.newEmails = <<>> THEN {<<>>} ELSE classifyEmailsBatch(req.newEmails)

ClassifyOk ==
  \E i \in 1..Len(classifyReqs) :
    /\ classifyReqs[i].phase = "read"
    /\ \E results \in ResultsFor(classifyReqs[i]) : ClassifyOkWith(i, results)

\* ClassifyOk with exactly one result per email the server asked about.
ClassifyOkFull ==
  \E i \in 1..Len(classifyReqs) :
    /\ classifyReqs[i].phase = "read"
    /\ \E results \in ResultsFor(classifyReqs[i]) :
         /\ Len(results) = Len(classifyReqs[i].newEmails)
         /\ ClassifyOkWith(i, results)

\* ClassifyFail without the removal from the in-flight set.
ClassifyFailKeepsInFlight ==
  \E i \in 1..Len(classifyReqs) :
    /\ classifyReqs' = Remove(classifyReqs, i)
    /\ isClassifying' = FALSE
    /\ UNCHANGED <<emails, selectedEmailId, selectedEmailIds, classifications,
                   pageToken, hasMore, isLoading, isLoadingMore, error,
                   filters, fetches, db, classifiedIdsRef>>
    /\ Rearm
    /\ lastFailed' = classifyReqs[i].batch
    /\ UNCHANGED uiVars
    /\ Render(FALSE, FALSE)

\* classifyEmails after its await, network error or non-2xx: the batch's ids
\* leave the in-flight set.
ClassifyFail ==
  \E i \in 1..Len(classifyReqs) :
    /\ classifiedIdsRef' = classifiedIdsRef \ Range(classifyReqs[i].batch)
    /\ classifyReqs' = Remove(classifyReqs, i)
    /\ isClassifying' = FALSE
    /\ UNCHANGED <<emails, selectedEmailId, selectedEmailIds, classifications,
                   pageToken, hasMore, isLoading, isLoadingMore, error,
                   filters, fetches, db>>
    /\ Rearm
    /\ lastFailed' = classifyReqs[i].batch
    /\ UNCHANGED uiVars
    /\ Render(FALSE, FALSE)

\* ------------------------------------------------------ keyboard and clicks
fetchVars ==
  <<pageToken, hasMore, isLoading, isLoadingMore, error, filters, fetches>>

pipeVars ==
  <<classifications, isClassifying, classifiedIdsRef, classifyReqs, db>>

\* findIndex giving the first position for an id that is absent.
findIndexAbsentFirst(list, id) ==
  IF \E i \in 1..Len(list) : list[i].id = id
    THEN (CHOOSE i \in 1..Len(list) :
            /\ list[i].id = id
            /\ \A j \in 1..(i - 1) : list[j].id # id) - 1
    ELSE 0

\* Array.prototype.findIndex on the ids of a list: the first index (from 0)
\* of the id, -1 when absent.
findIndex(list, id) ==
  IF \E i \in 1..Len(list) : list[i].id = id
    THEN (CHOOSE i \in 1..Len(list) :
            /\ list[i].id = id
            /\ \A j \in 1..(i - 1) : list[j].id # id) - 1
    ELSE -1

\* The element at index i (from 0).
At(list, i) == list[i + 1]

toggleEmailSelection(id) ==
  selectedEmailIds' =
    IF id \in selectedEmailIds THEN selectedEmailIds \ {id}
    ELSE selectedEmailIds \cup {id}

\* What every key or click handler leaves alone.
HandlerFrame ==
  /\ UNCHANGED <<emails, fetchVars, pipeVars, timerArmed, aiReq, aiStore,
                 retry>>
  /\ lastFailed' = <<>>

\* The list items are rendered when the list is neither loading nor in error
\* and is not empty.
ListRendered == ~isLoading /\ error = Null /\ Len(emails) > 0

\* "j"/ArrowDown: the id handleKeyDown passes to selectEmail for a displayed
\* list and an active id (the active id itself when it calls nothing).
NextIdOf(list, active) ==
  LET currentIndex == findIndex(list, active)
  IN  IF currentIndex < Len(list) - 1 THEN At(list, currentIndex + 1).id
      ELSE IF currentIndex = -1 /\ Len(list) > 0 THEN At(list, 0).id
      ELSE active

\* "k"/ArrowUp.
PrevIdOf(list, active) ==
  LET currentIndex == findIndex(list, active)
  IN  IF currentIndex > 0 THEN At(list, currentIndex - 1).id
      ELSE active

NextId == NextIdOf(displayEmails, selectedEmailId)

PrevId == PrevIdOf(displayEmails, selectedEmailId)

KeyJ ==
  /\ selectedEmailId' = NextId
  /\ UNCHANGED <<selectedEmailIds, detailPanelOpen, shortcutsModalOpen>>
  /\ HandlerFrame
  /\ DetailEffect
  /\ Render(FALSE, FALSE)

KeyK ==
  /\ selectedEmailId' = PrevId
  /\ UNCHANGED <<selectedEmailIds, detailPanelOpen, shortcutsModalOpen>>
  /\ HandlerFrame
  /\ DetailEffect
  /\ Render(FALSE, FALSE)

\* Enter / "o".
KeyEnter ==
  /\ detailPanelOpen' = (selectedEmailId # NoId \/ detailPanelOpen)
  /\ UNCHANGED <<selectedEmailId, selectedEmailIds, shortcutsModalOpen>>
  /\ HandlerFrame
  /\ DetailEffect
  /\ Render(FALSE, FALSE)

\* "x".
KeyX ==
  /\ IF selectedEmailId # NoId THEN toggleEmailSelection(selectedEmailId)
     ELSE UNCHANGED selectedEmailIds
  /\ UNCHANGED <<selectedEmailId, detailPanelOpen, shortcutsModalOpen>>
  /\ HandlerFrame
  /\ DetailEffect
  /\ Render(FALSE, FALSE)

\* selectAllEmails taking the ids of the displayed list.
selectAllDisplayed == selectedEmailIds' = IdsOf(displayEmails)

selectAllEmails == selectedEmailIds' = IdsOf(emails)

\* Ctrl/Cmd + "a": selectAllEmails.
KeyCtrlA ==
  /\ selectAllEmails
  /\ UNCHANGED <<selectedEmailId, detailPanelOpen, shortcutsModalOpen>>
  /\ HandlerFrame
  /\ DetailEffect
  /\ Render(FALSE, FALSE)

\* Escape reaches every keydown listener on window in the order they were
\* added.  The detail panel's and the shortcuts modal's listeners close what
\* is open, whatever the event's target.  The list view's listener returns
\* when the target is a text input; otherwise it reads the UI store as it is
\* when it runs: after the detail panel's listener when listenerLast.
ListSeesDetailOpen == detailPanelOpen /\ ~listenerLast

KeyEscapeOn(inInput) ==
  /\ detailPanelOpen' = FALSE
  /\ shortcutsModalOpen' = FALSE
  /\ IF inInput \/ ListSeesDetailOpen
       THEN UNCHANGED <<selectedEmailId, selectedEmailIds>>
       ELSE IF selectedEmailIds # {}
         THEN /\ selectedEmailIds' = {}
              /\ UNCHANGED selectedEmailId
         ELSE /\ selectedEmailId' = NoId
              /\ UNCHANGED selectedEmailIds
  /\ HandlerFrame
  /\ DetailEffect
  /\ Render(FALSE, FALSE)

KeyEscape == KeyEscapeOn(FALSE)

\* Escape typed in an INPUT or TEXTAREA.
KeyEscapeInInput == KeyEscapeOn(TRUE)

\* "?" (dashboard page listener) or the header's help button.
OpenShortcuts ==
  /\ shortcutsModalOpen' = TRUE
  /\ UNCHANGED <<selectedEmailId, selectedEmailIds, detailPanelOpen>>
  /\ HandlerFrame
  /\ DetailEffect
  /\ Render(FALSE, FALSE)

\* Click on a list item: handleEmailSelect.
ClickSelect ==
  /\ ListRendered
  /\ \E i \in 1..Len(displayEmails) : selectedEmailId' = displayEmails[i].id
  /\ UNCHANGED <<selectedEmailIds, detailPanelOpen, shortcutsModalOpen>>
  /\ HandlerFrame
  /\ DetailEffect
  /\ Render(FALSE, FALSE)

\* Double click on a list item: handleEmailOpen.
ClickOpen ==
  /\ ListRendered
  /\ \E i \in 1..Len(displayEmails) : selectedEmailId' = displayEmails[i].id
  /\ detailPanelOpen' = TRUE
  /\ UNCHANGED <<selectedEmailIds, shortcutsModalOpen>>
  /\ HandlerFrame
  /\ DetailEffect
  /\ Render(FALSE, FALSE)

\* Click on a list item's checkbox: handleToggleSelect.
ClickToggle ==
  /\ ListRendered
  /\ \E i \in 1..Len(displayEmails) :
       toggleEmailSelection(displayEmails[i].id)
  /\ UNCHANGED <<selectedEmailId, detailPanelOpen, shortcutsModalOpen>>
  /\ HandlerFrame
  /\ DetailEffect
  /\ Render(FALSE, FALSE)

\* ------------------------------------------------------------- detail panel
\* markAsRead clearing the flag of every message.
markAsReadAll(list, ids) ==
  [i \in 1..Len(list) |-> [list[i] EXCEPT !.isUnread = FALSE]]

markAsRead(list, ids) ==
  [i \in 1..Len(list) |->
     IF list[i].id \in ids THEN [list[i] EXCEPT !.isUnread = FALSE]
     ELSE list[i]]

markAsUnread(list, ids) ==
  [i \in 1..Len(list) |->
     IF list[i].id \in ids THEN [list[i] EXCEPT !.isUnread = TRUE]
     ELSE list[i]]

\* fetchEmailDetail after its await, response ok: the body is kept and the
\* message marked read.
DetailSuccess ==
  \E id \in detailReqs :
    /\ detailReqs' = detailReqs \ {id}
    /\ emailData' = id
    /\ UNCHANGED detailError
    /\ emails' = markAsRead(emails, {id})
    /\ UNCHANGED <<selectedEmailId, selectedEmailIds, detailPanelOpen,
                   shortcutsModalOpen, fetchVars, pipeVars, aiReq, aiStore,
                   retry>>
    /\ timerArmed' = TRUE
    /\ lastFailed' = <<>>
    /\ Render(TRUE, FALSE)

\* fetchEmailDetail after its await, network error or non-2xx.
DetailFail ==
  \E id \in detailReqs :
    /\ detailReqs' = detailReqs \ {id}
    /\ detailError' = "Failed to fetch email"
    /\ UNCHANGED <<emails, selectedEmailId, selectedEmailIds, detailPanelOpen,
                   shortcutsModalOpen, emailData, fetchVars, pipeVars,
                   timerArmed, aiReq, aiStore, retry>>
    /\ lastFailed' = <<>>
    /\ Render(FALSE, FALSE)

\* ----------------------------------------------------------- AI assistant
\* The panel's slice sizes are 50 (filtered scope) and 10 (default scope),
\* scaled like the page size: default < filtered < mailbox.
ContextFilterLimit == MaxId - 1
ContextDefaultLimit == ContextFilterLimit - 1

hasFilters(f) ==
  \/ f.search # ""
  \/ f.unreadOnly
  \/ f.hasAttachment
  \/ f.dateRange # "all"
  \/ f.categories # {}
  \/ f.priorities # {}
  \/ f.tags # {}
  \/ f.excludeRedundant

\* getContextualEmails with the filter scope tested before the selection.
getContextualEmailsFilterFirst ==
  IF hasFilters(filters)
    THEN [type |-> "filter",
          emails |-> Take(getFilteredEmails(emails, filters, classifications),
                          ContextFilterLimit)]
  ELSE IF selectedEmailIds # {}
    THEN [type |-> "selection",
          emails |-> SelectSeq(emails, LAMBDA e : e.id \in selectedEmailIds)]
  ELSE [type |-> "default", emails |-> Take(emails, ContextDefaultLimit)]

\* getContextualEmails: the context type and the emails in scope.
getContextualEmails ==
  IF selectedEmailIds # {}
    THEN [type |-> "selection",
          emails |-> SelectSeq(emails, LAMBDA e : e.id \in selectedEmailIds)]
  ELSE IF hasFilters(filters)
    THEN [type |-> "filter",
          emails |-> Take(getFilteredEmails(emails, filters, classifications),
                          ContextFilterLimit)]
  ELSE [type |-> "default", emails |-> Take(emails, ContextDefaultLimit)]

AnalyzeActions == {"summarize", "categorize", "tasks", "filters"}

\* handleQuickAction up to its await (the buttons are disabled while
\* analyzing): the request carries the action and the emails in scope.
AIQuickAction ==
  LET ctx == getContextualEmails
  IN  /\ ~aiStore.isAnalyzing
      /\ aiReq' = [type |-> ctx.type,
                   emailIds |-> [i \in 1..Len(ctx.emails) |-> ctx.emails[i].id]]
      /\ \E action \in AnalyzeActions :
           aiStore' = [aiStore EXCEPT !.isAnalyzing = TRUE,
                                      !.analyzeError = Null,
                                      !.action = action]
      /\ UNCHANGED <<emails, selectedEmailId, selectedEmailIds, detailPanelOpen,
                     shortcutsModalOpen, detailReqs, emailData, detailError,
                     retry, fetchVars,
                     pipeVars, timerArmed>>
      /\ lastFailed' = <<>>
      /\ Render(FALSE, FALSE)

\* ------------------------------------------------------- AI analysis
\* What the AI service's reply text can be: prose with no {...} in it, a
\* {...} that JSON.parse rejects, a JSON object without the field the caller
\* reads, or the JSON object asked for.
AIPayloads == {"prose", "malformed", "noField", "valid"}

\* The reply, or no reply (withRetry rethrows).
AIOutcomes == AIPayloads \cup {"unavailable"}

Reverse(seq) == [i \in 1..Len(seq) |-> seq[Len(seq) + 1 - i]]

\* JSON.parse of a reply that parses: the entries the AI model wrote carry
\* the ids in its own order.
ParsedObject(action, payload, ids) ==
  IF payload = "noField" THEN [note |-> "no result"]
  ELSE CASE action = "summarize" -> [summaries |-> Reverse(ids)]
         [] action = "categorize" -> [categories |-> Reverse(ids)]
         [] action = "tasks" -> [tasks |-> <<"reply">>]
         [] OTHER -> [suggestedFilters |-> <<"unread">>,
                      insights |-> <<"busy">>]

\* Whether the try block of an analysis function reaches its return: there is
\* a {...} match and JSON.parse accepts it.
Parses(payload) == payload \in {"noField", "valid"}

\* summarizeEmails: reading .map of a missing field throws inside the try.
summarizeEmails(ids, payload) ==
  LET parsed == ParsedObject("summarize", payload, ids)
  IN  IF Parses(payload) /\ "summaries" \in DOMAIN parsed
        THEN JsValue([i \in 1..Len(parsed.summaries) |->
                        IF i <= Len(ids) THEN ids[i]
                        ELSE parsed.summaries[i]])
      ELSE JsValue(<<>>)

\* categorizeEmails: returns the field as parsed.
categorizeEmails(ids, payload) ==
  LET parsed == ParsedObject("categorize", payload, ids)
  IN  IF Parses(payload)
        THEN IF "categories" \in DOMAIN parsed
               THEN JsValue(parsed.categories)
             ELSE JsUndefined
      ELSE JsValue(<<>>)

\* extractTasks: returns the parsed object.
extractTasks(ids, payload) ==
  IF Parses(payload) THEN JsValue(ParsedObject("tasks", payload, ids))
  ELSE JsValue([tasks |-> <<>>])

\* generateSmartFilters: returns the parsed object.
generateSmartFilters(ids, payload) ==
  IF Parses(payload) THEN JsValue(ParsedObject("filters", payload, ids))
  ELSE JsValue([suggestedFilters |-> <<>>, insights |-> <<>>])

AnalysisResult(action, ids, payload) ==
  CASE action = "summarize" -> summarizeEmails(ids, payload)
    [] action = "categorize" -> categorizeEmails(ids, payload)
    [] action = "tasks" -> extractTasks(ids, payload)
    [] OTHER -> generateSmartFilters(ids, payload)

\* POST /api/ai/analyze: the response body.  An undefined result leaves no
\* "result" key in the JSON.
analyzeRoute(action, ids, outcome) ==
  IF ids = <<>> THEN [error |-> "No emails provided"]
  ELSE IF outcome = "unavailable"
    THEN [error |-> "Something went wrong. Please try again."]
  ELSE LET result == AnalysisResult(action, ids, outcome)
       IN  IF result.defined THEN [result |-> result.value]
           ELSE [status |-> "ok"]

AnalyzeThrown == "Failed to analyze emails. Please try again."

\* handleQuickAction after its await, on the AI store: the store setter of
\* the action, the catch block when it throws (setSummaries and setCategories
\* call .map of their argument, the other two read a field of data.result),
\* and finally.
AfterReply(store, req, outcome) ==
  LET action == store.action
      data == analyzeRoute(action, req.emailIds, outcome)
      done == [store EXCEPT !.isAnalyzing = FALSE]
  IN  IF "error" \in DOMAIN data
        THEN [done EXCEPT !.analyzeError = data.error]
      ELSE IF "result" \notin DOMAIN data
        THEN [done EXCEPT !.analyzeError = AnalyzeThrown]
      ELSE CASE action = "summarize" ->
                  [done EXCEPT !.summaries = Range(data.result)]
             [] action = "categorize" ->
                  [done EXCEPT !.categories = Range(data.result)]
             [] action = "tasks" ->
                  [done EXCEPT !.tasks =
                     IF "tasks" \in DOMAIN data.result
                       THEN data.result.tasks ELSE <<>>]
             [] OTHER ->
                  [done EXCEPT
                     !.suggestedFilters =
                        IF "suggestedFilters" \in DOMAIN data.result
                          THEN data.result.suggestedFilters ELSE <<>>,
                     !.insights =
                        IF "insights" \in DOMAIN data.result
                          THEN data.result.insights ELSE <<>>]

AnalyzeReply ==
  \E outcome \in AIOutcomes :
    /\ aiStore.isAnalyzing
    /\ aiStore' = AfterReply(aiStore, aiReq, outcome)
    /\ UNCHANGED <<emails, selectedEmailId, selectedEmailIds, detailPanelOpen,
                   shortcutsModalOpen, detailReqs, emailData, detailError,
                   retry, aiReq, fetchVars,
                   pipeVars, timerArmed>>
    /\ lastFailed' = <<>>
    /\ Render(FALSE, FALSE)

\* ------------------------------------------------------------- withRetry
MAX_RETRIES == 3

\* The markers withRetry looks for in the lower-cased message of a thrown
\* error, and two messages with none of them.
RetryableErrors ==
  {"503", "overloaded", "429", "rate limit", "network", "timeout"}

ErrorMessages == RetryableErrors \cup {"401", "404"}

\* isRetryable counting every error as transient.
isRetryableAlways(errorMessage) == TRUE

isRetryable(errorMessage) == errorMessage \in RetryableErrors

\* What a withRetry step leaves alone.
RetryFrame ==
  /\ UNCHANGED <<emails, selectedEmailId, selectedEmailIds, fetchVars,
                 pipeVars, timerArmed, detailPanelOpen, shortcutsModalOpen,
                 detailReqs, emailData, detailError, aiReq, aiStore>>
  /\ lastFailed' = <<>>
  /\ Render(FALSE, FALSE)

\* withRetry(fn) is called (no call is running): attempt 0, fn() up to its
\* await.
RetryCall ==
  /\ retry.pc \in {"idle", "returned", "thrown"}
  /\ retry' = [pc |-> "call", attempt |-> 0, calls |-> 1, errors |-> <<>>,
               result |-> 0, thrown |-> Null]
  /\ RetryFrame

\* fn() resolves: return await fn().  The result is named by the call that
\* gave it.
FnResolves ==
  /\ retry.pc = "call"
  /\ retry' = [retry EXCEPT !.pc = "returned", !.result = retry.calls]
  /\ RetryFrame

\* fn() rejects: the catch block, up to the throw or the await of the delay.
FnRejects ==
  \E errorMessage \in ErrorMessages :
    /\ retry.pc = "call"
    /\ retry' =
         IF ~isRetryable(errorMessage) \/ retry.attempt = MAX_RETRIES - 1
           THEN [retry EXCEPT !.pc = "thrown",
                              !.errors = Append(@, errorMessage),
                              !.thrown = errorMessage]
         ELSE [retry EXCEPT !.pc = "sleep",
                            !.errors = Append(@, errorMessage)]
    /\ RetryFrame

\* The delay elapses: attempt++, the loop test, and fn() again or the throw
\* after the loop.
DelayElapses ==
  /\ retry.pc = "sleep"
  /\ retry' =
       IF retry.attempt + 1 < MAX_RETRIES
         THEN [retry EXCEPT !.pc = "call", !.attempt = @ + 1,
                            !.calls = @ + 1]
       ELSE [retry EXCEPT !.pc = "thrown", !.attempt = @ + 1,
                          !.thrown = retry.errors[Len(retry.errors)]]
  /\ RetryFrame

Next ==
  \/ UpdateFilter
  \/ ResetFilters
  \/ Refresh
  \/ LoadMore
  \/ FetchSuccess
  \/ FetchFail
  \/ ClassifyTimer
  \/ ServerRead
  \/ ClassifyOk
  \/ ClassifyFail
  \/ ManualPut

Spec == Init /\ [][Next]_vars

\* --------------------------------------------- the list view with selection
\* The list view driven by page fetches, navigation keys and selection, the
\* classification service not answering.
ListNext ==
  \/ UpdateFilter
  \/ ResetFilters
  \/ Refresh
  \/ LoadMore
  \/ FetchSuccess
  \/ FetchFail
  \/ KeyJ
  \/ KeyK
  \/ KeyX
  \/ KeyCtrlA
  \/ ClickSelect
  \/ ClickToggle

ListSpec == Init /\ [][ListNext]_vars

\* ------------------------------------------ navigation with classifications
\* The list view driven by page fetches, navigation and a classification
\* service that answers every request in full.
NavNext ==
  \/ UpdateFilter
  \/ ResetFilters
  \/ Refresh
  \/ LoadMore
  \/ FetchSuccess
  \/ FetchFail
  \/ ClassifyTimer
  \/ ServerRead
  \/ ClassifyOkFull
  \/ KeyJ
  \/ KeyK
  \/ ClickSelect

NavSpec == Init /\ [][NavNext]_vars

\* ------------------------------------------------- keys, panel and modal
\* The mounted list with its first page arriving, the detail panel, the
\* shortcuts modal and the Escape key.
PanelNext ==
  \/ FetchSuccess
  \/ FetchFail
  \/ KeyJ
  \/ KeyEnter
  \/ KeyX
  \/ KeyEscape
  \/ KeyEscapeInInput
  \/ OpenShortcuts
  \/ ClickOpen
  \/ DetailSuccess
  \/ DetailFail

PanelSpec == Init /\ [][PanelNext]_vars

\* ------------------------------------------------ typing in a text input
\* The same surface when every key press goes to a text input (the search
\* box) and the panel and the modal are opened with the mouse.
TypingNext ==
  \/ FetchSuccess
  \/ FetchFail
  \/ ClickSelect
  \/ ClickToggle
  \/ ClickOpen
  \/ OpenShortcuts
  \/ DetailSuccess
  \/ DetailFail
  \/ KeyEscapeInInput

TypingSpec == Init /\ [][TypingNext]_vars

\* ------------------------------------------------------- quick actions
\* The mounted list with its first page arriving, the selection check boxes
\* and the AI panel's quick actions.
AnalyzeNext ==
  \/ FetchSuccess
  \/ FetchFail
  \/ ClickToggle
  \/ AIQuickAction
  \/ AnalyzeReply

AnalyzeSpec == Init /\ [][AnalyzeNext]_vars

\* ------------------------------------------------------------- withRetry
\* withRetry calls, one at a time; the wrapped operation settles and the
\* delay timer fires.
RetryNext ==
  \/ RetryCall
  \/ FnResolves
  \/ FnRejects
  \/ DelayElapses

RetrySpec ==
  /\ Init
  /\ [][RetryNext]_vars
  /\ WF_vars(FnResolves \/ FnRejects)
  /\ WF_vars(DelayElapses)

\* ------------------------------------------- store states for the filters
\* The judgments of the classification maps explored.
StoreJudgments ==
  {[category |-> "finance", priority |-> "high", isRedundant |-> FALSE],
   [category |-> "work", priority |-> "medium", isRedundant |-> FALSE],
   [category |-> "finance", priority |-> "medium", isRedundant |-> TRUE]}

StoreClassifications ==
  UNION {[S -> StoreJudgments] : S \in SUBSET Ids}

\* The server's row of a judgment.
RowOf(id, j) ==
  [emailId |-> id, category |-> j.category, priority |-> j.priority,
   isRedundant |-> j.isRedundant, isManual |-> FALSE]

StoreFilters ==
  {[defaultFilters EXCEPT !.unreadOnly = u, !.categories = c,
                          !.priorities = p, !.excludeRedundant = x] :
     u \in BOOLEAN, c \in {{}, {"finance"}}, p \in {{}, {"high"}},
     x \in BOOLEAN}

\* The first n pages of the provider's listing for a query, as the store
\* holds them: the list and the cursor.
RECURSIVE Pages(_, _)
Pages(q, n) ==
  IF n = 0 THEN [emails |-> <<>>, pageToken |-> NullToken]
  ELSE LET before == Pages(q, n - 1)
           page == ListMessages(q, before.pageToken)
       IN  IF n > 1 /\ before.pageToken = NullToken THEN before
           ELSE [emails |-> before.emails \o page.messages,
                 pageToken |-> page.nextPageToken]

\* A quiescent store: some pages of the current query loaded, some loaded
\* messages classified, at most one message selected, nothing in flight.
StoreInit ==
  \E f \in StoreFilters, n \in 0..MaxId, cls \in StoreClassifications :
    LET loaded == Pages(buildQuery(f), n)
    IN  /\ filters = f
        /\ emails = loaded.emails
        /\ pageToken = loaded.pageToken
        /\ hasMore = (loaded.pageToken # NullToken)
        /\ classifications = [id \in DOMAIN cls |-> RowOf(id, cls[id])]
        /\ db = classifications
        /\ classifiedIdsRef = DOMAIN cls
        /\ selectedEmailIds \in {{}} \cup {{id} : id \in IdsOf(loaded.emails)}
        /\ displayEmails = DisplayValue(emails, filters, classifications)
  /\ selectedEmailId = NoId
  /\ isClassifying = FALSE
  /\ isLoading = FALSE
  /\ isLoadingMore = FALSE
  /\ error = Null
  /\ fetches = EmptyBag
  /\ classifyReqs = <<>>
  /\ timerArmed = FALSE
  /\ lastFailed = <<>>
  /\ detailPanelOpen = FALSE
  /\ shortcutsModalOpen = FALSE
  /\ listenerLast = TRUE
  /\ detailReqs = {}
  /\ emailData = NoId
  /\ detailError = Null
  /\ retry = retryIdle
  /\ aiReq = NoRequest
  /\ aiStore = aiStoreInit

StoreNext == AIQuickAction

StoreSpec == StoreInit /\ [][StoreNext]_vars

\* ------------------------------------------- store states for the merge
\* The rows of the classification maps and batches explored: for each id an
\* automatic row and a manual one of another category.
MergeRows(id) ==
  {[emailId |-> id, category |-> IF m THEN "work" ELSE "finance",
    priority |-> "medium", isRedundant |-> FALSE, isManual |-> m] :
     m \in BOOLEAN}

MergeMaps ==
  UNION {{f \in [S -> UNION {MergeRows(id) : id \in S}] :
            \A id \in S : f[id].emailId = id} : S \in SUBSET Ids}

\* A quiescent store with default filters: some pages loaded, any
\* classification map, the server holding the same rows.
MergeInit ==
  \E n \in 0..MaxId, cls \in MergeMaps :
    LET loaded == Pages(<<>>, n)
    IN  /\ filters = defaultFilters
        /\ emails = loaded.emails
        /\ pageToken = loaded.pageToken
        /\ hasMore = (loaded.pageToken # NullToken)
        /\ classifications = cls
        /\ db = cls
        /\ classifiedIdsRef = DOMAIN cls
        /\ displayEmails = emails
        /\ selectedEmailIds = {}
  /\ selectedEmailId = NoId
  /\ isClassifying = FALSE
  /\ isLoading = FALSE
  /\ isLoadingMore = FALSE
  /\ error = Null
  /\ fetches = EmptyBag
  /\ classifyReqs = <<>>
  /\ timerArmed = FALSE
  /\ lastFailed = <<>>
  /\ detailPanelOpen = FALSE
  /\ shortcutsModalOpen = FALSE
  /\ listenerLast = TRUE
  /\ detailReqs = {}
  /\ emailData = NoId
  /\ detailError = Null
  /\ retry = retryIdle
  /\ aiReq = NoRequest
  /\ aiStore = aiStoreInit

\* setClassifications(batch) on a batch of rows the server holds; the
\* auto-classify effect sets its timer again on the new map.
SetClassifications ==
  \E batch \in MergeMaps :
    /\ classifications' = MergedClassifications(classifications, batch)
    /\ db' = MergedClassifications(db, batch)
    /\ timerArmed' = TRUE
    /\ UNCHANGED <<emails, selectedEmailId, selectedEmailIds, isClassifying,
                   fetchVars, classifiedIdsRef, classifyReqs>>
    /\ lastFailed' = <<>>
    /\ UNCHANGED uiVars
    /\ Render(FALSE, FALSE)

MergeNext == SetClassifications

MergeSpec == MergeInit /\ [][MergeNext]_vars

\* ======================================================== claims C1 - C10
IdSeq(list) == [i \in 1..Len(list) |-> list[i].id]

SameJudgment(a, b) ==
  /\ a.category = b.category
  /\ a.priority = b.priority
  /\ a.isRedundant = b.isRedundant

\* C1: once the store's entry of a message id has isManual = true, no step
\* changes that entry's category, priority or redundancy.
C1_ManualEntryKept ==
  [][\A id \in DOMAIN classifications :
       classifications[id].isManual =>
         /\ id \in DOMAIN classifications'
         /\ SameJudgment(classifications'[id], classifications[id])]_vars

\* C2: a message that stays loaded (with the list no longer loading) while the
\* classification service keeps answering eventually has an entry in the
\* store's classification map.
C2_EventuallyClassified ==
  \A id \in Ids :
    <>[](id \in IdsOf(emails) /\ ~isLoading)
      => <>(id \in DOMAIN classifications)

\* C3: the ids of an outstanding batch are in the in-flight set; a batch is
\* made only of ids that were not in the in-flight set and puts them there in
\* the same step; the recomputed unclassified set holds no id that is
\* classified or in flight.
C3_InFlightNotResubmitted ==
  /\ [](\A k \in 1..Len(classifyReqs) :
          Range(classifyReqs[k].batch) \subseteq classifiedIdsRef)
  /\ [](IdsOf(Unclassified)
          \cap (classifiedIdsRef \cup DOMAIN classifications) = {})
  /\ [][Len(classifyReqs') > Len(classifyReqs) =>
          LET sent == Range(classifyReqs'[Len(classifyReqs')].batch)
          IN  /\ sent \cap classifiedIdsRef = {}
              /\ sent \subseteq classifiedIdsRef']_vars

\* C3 witness: batch <<1, 2>> is outstanding, message 3 has been added to the
\* list, and the unclassified set is {3}.
C3_Witness ==
  /\ Len(classifyReqs) = 1
  /\ classifyReqs[1].batch = <<1, 2>>
  /\ IdsOf(emails) = {1, 2, 3}
  /\ IdsOf(Unclassified) = {3}

\* C4: the step in which a classification request fails takes every id of
\* its batch out of the in-flight set, leaves the classification map as it
\* was, sets the debounce timer, and each of those ids that is loaded and
\* unclassified is in the unclassified set the next cycle computes.
C4_FailureRollsBack ==
  [][lastFailed' # <<>> =>
       /\ Range(lastFailed') \cap classifiedIdsRef' = {}
       /\ classifications' = classifications
       /\ ~isClassifying'
       /\ timerArmed'
       /\ \A id \in Range(lastFailed') :
            (id \in IdsOf(emails') /\ id \notin DOMAIN classifications')
              => id \in IdsOf(Unclassified')]_vars

InBatch(id) ==
  \E k \in 1..Len(classifyReqs) : id \in Range(classifyReqs[k].batch)

\* C4, under FairSpec: unless the list keeps being reloaded, each id of a
\* failed batch is later submitted again, or has left the list, or has been
\* classified.
C4_ResubmittedLater ==
  \/ []<>isLoading
  \/ \A id \in Ids :
       [](id \in Range(lastFailed) =>
            <>(\/ InBatch(id)
               \/ id \notin IdsOf(emails)
               \/ id \in DOMAIN classifications))

\* C4 witness: a batch has just failed and one of its ids is loaded and
\* unclassified.
C4_Witness ==
  /\ lastFailed # <<>>
  /\ \E id \in Range(lastFailed) : id \in IdsOf(Unclassified)

\* C5: at most one classification request is outstanding, a batch holds
\* between 1 and BatchCeiling ids, and a new batch is the longest such prefix
\* of the loaded ids, in list order, that were neither classified nor in
\* flight.
C5_OneBoundedBatch ==
  /\ [](/\ Len(classifyReqs) <= 1
        /\ \A k \in 1..Len(classifyReqs) :
             /\ Len(classifyReqs[k].batch) >= 1
             /\ Len(classifyReqs[k].batch) <= BatchCeiling)
  /\ [][Len(classifyReqs') > Len(classifyReqs) =>
          LET sent == classifyReqs'[Len(classifyReqs')].batch
              eligible ==
                SelectSeq(IdSeq(emails),
                          LAMBDA id : /\ id \notin DOMAIN classifications
                                      /\ id \notin classifiedIdsRef)
          IN  /\ Len(sent) <= Len(eligible)
              /\ sent = SubSeq(eligible, 1, Len(sent))
              /\ Len(sent) = BatchCeiling \/ Len(sent) = Len(eligible)]_vars

\* C5 witness: a full batch is outstanding while a further loaded message is
\* neither classified nor in flight.
C5_Witness ==
  /\ Len(classifyReqs) = 1
  /\ Len(classifyReqs[1].batch) = BatchCeiling
  /\ Unclassified # <<>>

AppendsOutstanding ==
  {req \in BagToSet(fetches) : req.append}

NumAppendsOutstanding ==
  BagCardinality([req \in AppendsOutstanding |-> CopiesIn(req, fetches)])

\* C6: once every page fetch has resolved without error, the base list holds
\* only messages the provider returns for the current filters, and the cursor
\* is one the provider issued for them.
C6_StaleResponseDiscarded ==
  (BagCardinality(fetches) = 0 /\ error = Null) =>
    /\ \A i \in 1..Len(emails) :
         Matches(Mail[emails[i].id], buildQuery(filters))
    /\ pageToken = NullToken \/ pageToken.q = buildQuery(filters)

\* C7: at most one page-append request is outstanding.
C7_LoadMoreSerialized == NumAppendsOutstanding <= 1

\* C8: no message id occurs twice in the base list.
C8_UniqueIds ==
  \A i, j \in 1..Len(emails) : emails[i].id = emails[j].id => i = j

\* C9: a step that changes the filters without changing the remote query
\* issues no fetch and leaves the base list and the cursor as they were.
C9_LocalFilterNoFetch ==
  [][(filters' # filters /\ buildQuery(filters') = buildQuery(filters)) =>
       /\ fetches' = fetches
       /\ emails' = emails
       /\ pageToken' = pageToken]_vars

\* C10: a page-append request carries no cursor, or a cursor the provider
\* issued for the query the request is sent with.
C10_NoForeignCursorSent ==
  \A req \in AppendsOutstanding :
    req.pageToken = NullToken \/ req.pageToken.q = req.q

\* ======================================================= claims C11 - C20
\* C11: the step that takes a first-page request out of flight either fails
\* (error set; list, active id, selection, cursor and hasMore as before) or
\* sets, together, the list to the response's messages, the active id to
\* none, the selection to empty, and the cursor and hasMore to the response's.
C11_ReplaceAtomic ==
  [][\A req \in BagToSet(fetches) :
       (~req.append /\ fetches' = fetches (-) SetToBag({req})) =>
         LET data == ListMessages(req.q, req.pageToken)
         IN  \/ /\ error' # Null
                /\ UNCHANGED <<emails, selectedEmailId, selectedEmailIds,
                               pageToken, hasMore>>
             \/ /\ emails' = data.messages
                /\ selectedEmailId' = NoId
                /\ selectedEmailIds' = {}
                /\ pageToken' = data.nextPageToken
                /\ hasMore' = (data.nextPageToken # NullToken)]_vars

\* C11 witness: a first-page response is about to be applied to a loaded list
\* that has an active message, a selection and a cursor.
C11_Witness ==
  /\ \E req \in BagToSet(fetches) : ~req.append
  /\ Len(emails) > 0
  /\ selectedEmailId # NoId
  /\ selectedEmailIds # {}
  /\ hasMore

\* C12: the step that takes a page-append request out of flight either fails
\* (nothing of the list state changes) or sets the list to the previous list
\* followed by the response's messages, the cursor to the response's and
\* hasMore to whether that cursor exists, with the active id and the
\* selection as before.
C12_AppendConcatenates ==
  [][\A req \in BagToSet(fetches) :
       (req.append /\ fetches' = fetches (-) SetToBag({req})) =>
         LET data == ListMessages(req.q, req.pageToken)
         IN  \/ /\ error' # Null
                /\ UNCHANGED <<emails, selectedEmailId, selectedEmailIds,
                               pageToken, hasMore>>
             \/ /\ emails' = emails \o data.messages
                /\ pageToken' = data.nextPageToken
                /\ hasMore' = (data.nextPageToken # NullToken)
                /\ UNCHANGED <<selectedEmailId, selectedEmailIds>>]_vars

\* C12 witness: the first page [1, 2] with its cursor, then the append of
\* [3] with no cursor: list [1, 2, 3], hasMore false, the selection kept.
C12_Witness ==
  /\ IdSeq(emails) = <<1, 2, 3>>
  /\ pageToken = NullToken
  /\ ~hasMore
  /\ selectedEmailIds # {}
  /\ selectedEmailId # NoId

\* C13: while the category filter or the priority filter is non-empty, no
\* loaded message without a classification entry is in the filtered set.
C13_UnclassifiedFilteredOut ==
  (filters.categories # {} \/ filters.priorities # {}) =>
    \A i \in 1..Len(emails) :
      emails[i].id \notin DOMAIN classifications =>
        emails[i].id
          \notin IdsOf(getFilteredEmails(emails, filters, classifications))

\* C13 witness: a category filter is active, a loaded message is
\* unclassified, and the filtered scope an AI request was built from is not
\* empty.
C13_Witness ==
  /\ filters.categories # {}
  /\ \E i \in 1..Len(emails) : emails[i].id \notin DOMAIN classifications
  /\ aiReq.type = "filter"
  /\ aiReq.emailIds # <<>>

\* C14: while the exclude-redundant filter is active, no loaded message
\* without a classification entry is in the visible list.
C14_UnclassifiedExcluded ==
  filters.excludeRedundant =>
    \A i \in 1..Len(emails) :
      emails[i].id \notin DOMAIN classifications =>
        emails[i].id \notin IdsOf(displayEmails)

\* C15: while the list is rendered, the memoized list is the loaded messages
\* that pass the category, priority, tag and exclude-redundant filters on the
\* current classification and tag maps.
C15_VisibleIsFiltered ==
  ListRendered =>
    displayEmails = getFilteredEmails(emails, filters, classifications)

\* The positions (from 1) of the active id in the displayed list.
ActivePositions ==
  {i \in 1..Len(displayEmails) : displayEmails[i].id = selectedEmailId}

\* C16: on the displayed list, "next" with no active id gives the first
\* message (nothing on an empty list); with the active message at position i
\* it gives the message at i + 1, and nothing at the last position; "prev"
\* gives the message at i - 1, nothing at the first position and nothing with
\* no active id; "next" then "prev" from a position that has both neighbours
\* gives the active id back.
C16_NextPrev ==
  LET vis == IdSeq(displayEmails)
      n == Len(vis)
  IN  /\ selectedEmailId = NoId =>
           /\ NextId = IF n > 0 THEN vis[1] ELSE NoId
           /\ PrevId = NoId
      /\ \A i \in ActivePositions :
           /\ NextId = IF i < n THEN vis[i + 1] ELSE selectedEmailId
           /\ PrevId = IF i > 1 THEN vis[i - 1] ELSE selectedEmailId
           /\ (1 < i /\ i < n) =>
                PrevIdOf(displayEmails, NextId) = selectedEmailId

\* C16 on the lists that hold no id twice.
C16_NextPrevUniqueIds ==
  (\A i, j \in 1..Len(displayEmails) :
     displayEmails[i].id = displayEmails[j].id => i = j) => C16_NextPrev

\* C17: with an active id that is not in the displayed list, "next" gives the
\* first displayed message (nothing on an empty list), "prev" gives nothing,
\* and the index either handler reads is inside the list.
C17_StaleActiveIsUnset ==
  LET vis == IdSeq(displayEmails)
      n == Len(vis)
      currentIndex == findIndex(displayEmails, selectedEmailId)
  IN  /\ (selectedEmailId # NoId /\ selectedEmailId \notin Range(vis)) =>
           /\ NextId = IF n > 0 THEN vis[1] ELSE selectedEmailId
           /\ PrevId = selectedEmailId
      /\ currentIndex < n - 1 => currentIndex + 1 \in 0..(n - 1)
      /\ (currentIndex = -1 /\ n > 0) => 0 \in 0..(n - 1)
      /\ currentIndex > 0 => currentIndex - 1 \in 0..(n - 1)

\* C17 witness: after a category filter change the active message is not in
\* the displayed list, which holds two messages.
C17_Witness ==
  /\ filters.categories # {}
  /\ selectedEmailId # NoId
  /\ selectedEmailId \notin IdsOf(displayEmails)
  /\ Len(displayEmails) >= 2

\* C18 (PanelSpec: only the Escape key closes the panel): with the detail
\* panel open and a non-empty selection, the step that closes the panel
\* leaves the selection and the active id as they were.
C18_CloseOnlyClosesPanel ==
  [][(detailPanelOpen /\ selectedEmailIds # {} /\ ~detailPanelOpen') =>
       /\ selectedEmailIds' = selectedEmailIds
       /\ selectedEmailId' = selectedEmailId]_vars

\* C19 (TypingSpec: every key press has a text input as its target, and the
\* mouse only opens): no step closes the detail panel or the shortcuts modal
\* or drops the body the panel holds.
C19_TypingChangesNothing ==
  [][/\ detailPanelOpen => detailPanelOpen'
     /\ shortcutsModalOpen => shortcutsModalOpen'
     /\ (emailData # NoId /\ selectedEmailId' = selectedEmailId)
          => emailData' # NoId]_vars

\* C20: the scope of an AI request is the loaded messages whose ids are
\* selected when the selection is not empty; otherwise, when the filters
\* differ from the defaults, the first ContextFilterLimit messages of the
\* filtered set; otherwise the first ContextDefaultLimit loaded messages.
C20_ViewingContextPriority ==
  aiReq # NoRequest =>
    IF selectedEmailIds # {}
      THEN /\ aiReq.type = "selection"
           /\ aiReq.emailIds =
                SelectSeq(IdSeq(emails), LAMBDA id : id \in selectedEmailIds)
    ELSE IF filters # defaultFilters
      THEN /\ aiReq.type = "filter"
           /\ aiReq.emailIds =
                Take(IdSeq(getFilteredEmails(emails, filters,
                                             classifications)),
                     ContextFilterLimit)
    ELSE /\ aiReq.type = "default"
         /\ aiReq.emailIds = Take(IdSeq(emails), ContextDefaultLimit)

\* C20 witness: a request was scoped to the selection while a filter that
\* passes other messages was active.
C20_Witness ==
  /\ aiReq.type = "selection"
  /\ filters # defaultFilters
  /\ Range(aiReq.emailIds)
       # IdsOf(getFilteredEmails(emails, filters, classifications))

\* ======================================================= claims C21 - C30
\* C21: the Ctrl/Cmd+A step sets the selection to the ids of every loaded
\* message, whatever the filters and the displayed list are, and leaves the
\* active id and the loaded list as they were.
C21_SelectAllLoaded ==
  [][KeyCtrlA =>
       /\ selectedEmailIds' = IdsOf(emails)
       /\ selectedEmailId' = selectedEmailId
       /\ emails' = emails]_vars

\* C21 witness: every loaded message is selected while a category filter
\* hides all of them from the displayed list and a message is active.
C21_Witness ==
  /\ Len(emails) >= 2
  /\ selectedEmailIds = IdsOf(emails)
  /\ filters.categories # {}
  /\ displayEmails = <<>>
  /\ selectedEmailId # NoId

\* C22: for every stored map and every batch, the map after
\* setClassifications(batch) is unchanged by setClassifications(batch) again.
C22_MergeIdempotent ==
  [][\A batch \in MergeMaps :
       classifications' = MergedClassifications(classifications, batch) =>
         MergedClassifications(classifications', batch) = classifications']_vars

\* C22 witness: a merge has been applied and the map holds an entry for every
\* message, one of them manual, with both categories present.
C22_Witness ==
  /\ timerArmed
  /\ DOMAIN classifications = Ids
  /\ \E id \in Ids : classifications[id].isManual
  /\ {classifications[id].category : id \in Ids} = {"finance", "work"}

\* after is before with the unread flag of the messages whose id is in ids
\* set to unread, and nothing else different.
OnlyFlagChanged(before, after, ids, unread) ==
  /\ Len(after) = Len(before)
  /\ \A i \in 1..Len(before) :
       after[i] = IF before[i].id \in ids
                    THEN [before[i] EXCEPT !.isUnread = unread]
                  ELSE before[i]

\* C23: on the loaded list and any set of ids, markAsRead and markAsUnread
\* give the same messages in the same order with only the unread flag of the
\* listed ids set; and the step in which the detail panel marks a message
\* read changes the list in no other way, leaves the selection, the active
\* id, the cursor, the filters and the classifications as they were, and
\* sends no page fetch and no classification request.
C23_MarkReadFrame ==
  /\ [](\A ids \in SUBSET Ids :
          /\ OnlyFlagChanged(emails, markAsRead(emails, ids), ids, FALSE)
          /\ OnlyFlagChanged(emails, markAsUnread(emails, ids), ids, TRUE))
  /\ [][\A id \in detailReqs :
          (detailReqs' = detailReqs \ {id} /\ emailData' = id) =>
            /\ \/ emails' = emails
               \/ OnlyFlagChanged(emails, emails', {id}, FALSE)
            /\ UNCHANGED <<selectedEmailId, selectedEmailIds, pageToken,
                           hasMore, filters, classifications, fetches,
                           classifyReqs>>]_vars

\* C23 witness: the body of message 2 (unread in the mailbox) has arrived and
\* the loaded list holds it as read, with a non-empty selection and a cursor.
C23_Witness ==
  /\ emailData = 2
  /\ \E i \in 1..Len(emails) : emails[i].id = 2 /\ ~emails[i].isUnread
  /\ Len(emails) >= 2
  /\ selectedEmailIds # {}
  /\ hasMore

NoResultOf(store, action) ==
  CASE action = "summarize" -> store.summaries = {}
    [] action = "categorize" -> store.categories = {}
    [] action = "tasks" -> store.tasks = <<>>
    [] OTHER -> store.suggestedFilters = <<>> /\ store.insights = <<>>

\* The AI replies that are not JSON or lack the expected field.
BadPayloads == {"prose", "malformed", "noField"}

\* C25: in the step that handles the response to a quick action whose AI
\* reply was not JSON or lacked the expected field, the analysis function
\* returned a value, the AI store holds an empty result for the action and
\* no error.
C25_BadPayloadGivesEmpty ==
  [][\A payload \in BadPayloads :
       (/\ aiStore.isAnalyzing
        /\ aiReq.emailIds # <<>>
        /\ aiStore' = AfterReply(aiStore, aiReq, payload)) =>
         /\ AnalysisResult(aiStore.action, aiReq.emailIds, payload).defined
         /\ NoResultOf(aiStore', aiStore.action)
         /\ aiStore'.analyzeError = Null]_vars

\* C25, for the actions that call .map on the field inside their try block.
C25_SummarizeGivesEmpty ==
  [][\A payload \in BadPayloads :
       (/\ aiStore.isAnalyzing
        /\ aiStore.action = "summarize"
        /\ aiReq.emailIds # <<>>
        /\ aiStore' = AfterReply(aiStore, aiReq, payload)) =>
         /\ summarizeEmails(aiReq.emailIds, payload) = JsValue(<<>>)
         /\ aiStore'.summaries = {}
         /\ aiStore'.analyzeError = Null]_vars

\* C26: a step in which a classification POST completes changes the
\* category, priority and redundancy of no stored row that has
\* isManual = true.
C26_ManualRowKept ==
  [][classifyReqs' # classifyReqs =>
       \A id \in DOMAIN db :
         db[id].isManual =>
           /\ id \in DOMAIN db'
           /\ SameJudgment(db'[id], db[id])]_vars

\* C27: hasMore is true exactly when the cursor is not null.
C27_HasMoreIffCursor == hasMore <=> (pageToken # NullToken)

\* C28: every selected id is the id of a loaded message, and the active id
\* is none or the id of a loaded message.
C28_SelectionWithinList ==
  /\ selectedEmailIds \subseteq IdsOf(emails)
  /\ selectedEmailId = NoId \/ selectedEmailId \in IdsOf(emails)

\* C28 witness: under the unread filter the list has been replaced by
\* [2, 3] after message 1 had been loaded; a message is active and both
\* loaded messages are selected.
C28_Witness ==
  /\ filters.unreadOnly
  /\ IdSeq(emails) = <<2, 3>>
  /\ selectedEmailIds = {2, 3}
  /\ selectedEmailId # NoId

\* C29: while the detail panel is open, no body fetch is outstanding and the
\* panel shows a body (it holds one and no error), that body is the active
\* message's.
C29_BodyBelongsToActive ==
  (/\ detailPanelOpen
   /\ detailReqs = {}
   /\ detailError = Null
   /\ emailData # NoId) => emailData = selectedEmailId

\* C29, second part: the step that marks a message read is the step in which
\* that message's body fetch succeeded.
C29_MarkReadOnlyOnSuccess ==
  [][emails' # emails /\ IdSeq(emails') = IdSeq(emails) =>
       \E id \in detailReqs :
         /\ detailReqs' = detailReqs \ {id}
         /\ emailData' = id
         /\ emails' = markAsRead(emails, {id})]_vars

RetryRunning == retry.pc \in {"call", "sleep"}

RetryEnded == retry.pc \in {"returned", "thrown"}

\* C30: withRetry calls the operation at most MAX_RETRIES times; every error
\* before the last call was retryable (no call follows a success or a
\* non-retryable error); it returns the result of the call that succeeded;
\* what it throws is the last error, thrown when that error is not retryable
\* or was the error of call MAX_RETRIES; once it has ended the operation is
\* not called again by that call; and every call ends.
C30_RetryBoundedAndEnds ==
  /\ [](/\ retry.calls <= MAX_RETRIES
        /\ Len(retry.errors) <= retry.calls
        /\ \A i \in 1..(retry.calls - 1) :
             /\ i <= Len(retry.errors)
             /\ retry.errors[i] \in RetryableErrors)
  /\ [](retry.pc = "returned" =>
          /\ retry.result = retry.calls
          /\ Len(retry.errors) = retry.calls - 1)
  /\ [](retry.pc = "thrown" =>
          /\ Len(retry.errors) = retry.calls
          /\ retry.thrown = retry.errors[retry.calls]
          /\ \/ retry.thrown \notin RetryableErrors
             \/ retry.calls = MAX_RETRIES)
  /\ [][RetryEnded => (retry'.calls = retry.calls \/ retry'.errors = <<>>)]_vars
  /\ (RetryRunning ~> RetryEnded)

\* C30 witness: the third call failed with a retryable error after two
\* retryable failures, and withRetry threw that error.
C30_Witness ==
  /\ retry.pc = "thrown"
  /\ retry.calls = MAX_RETRIES
  /\ \A i \in 1..MAX_RETRIES : retry.errors[i] \in RetryableErrors
  /\ retry.thrown = retry.errors[MAX_RETRIES]

\* The debounce timer fires once set, and the classification service answers:
\* a request that keeps being sent is eventually read and answered in full.
FairSpec ==
  /\ Spec
  /\ WF_vars(ClassifyTimer)
  /\ SF_vars(ServerRead)
  /\ SF_vars(ClassifyOkFull)
====
